---------------------------- MODULE Spec2Model ----------------------------
(***************************************************************************)
(* Model of plc_barcode_reader.py: the handshake loop (main_loop), the     *)
(* box pipeline (process_box) and the functions they call, together with   *)
(* the PLC data block, the Excel log, the local XML file and the SFTP      *)
(* folder they act on.                                                     *)
(*                                                                         *)
(* Strings are sequences of character codes and a data-block read is a     *)
(* sequence of bytes, so that decoding, trimming and formatting are        *)
(* computed rather than assumed.                                           *)
(***************************************************************************)
EXTENDS Integers, Sequences, FiniteSets, TLC

VARIABLES
    pc,               \* position of the service in main_loop / process_box
    boxes_processed,  \* main_loop counter (line 518)
    data_ready,       \* main_loop local (line 530)
    success,          \* main_loop local (line 537): "none", "ok", "fail"
    box_data,         \* process_box local (line 440)
    excel_success,    \* process_box local (line 446): "none", "ok", "fail"
    xml_content,      \* process_box local (line 452); <<>> stands for None
    xml_saved,        \* result of save_xml_file (line 458): "none", "ok", "fail"
    upload_success,   \* process_box local (line 463): "none", "ok", "fail"
    write_success,    \* process_box local (line 468): "none", "ok", "fail"
    data,             \* write_plc_bit local (line 153): the byte it read
    calls,            \* functions process_box has called in this run, in order
    scan,             \* read_box_data locals (lines 190-225) while it runs
    db0,              \* PLC data block, byte 0 (bit 0 = ready, bit 1 = ack)
    dbImage,          \* PLC data block, bytes 1.. : index of the staged image
    plcUp,            \* whether the PLC answers db_read / db_write
    excel,            \* Production_Log.xlsx
    xml_file,         \* Scandata.xml on the local disk
    remote,           \* Scandata.xml in the SFTP folder
    SFTP_PASS,        \* configured password (line 58): TRUE iff non-empty
    inflight,         \* number of process_box invocations not yet returned
    attempts,         \* failed runs since the controller last touched the block
    carry,            \* box of the latest run that persisted and then failed
    interrupted,      \* whether Ctrl+C has been delivered to main_loop
    acked             \* the box acknowledged last, seen from the controller:
                      \* "yes" since the write of ack = true, "cleared" once
                      \* the controller has cleared ready after it, "no" once
                      \* it has set ready again or another run has started

vars == <<pc, boxes_processed, data_ready, success, box_data, excel_success,
          xml_content, xml_saved, upload_success, write_success, data, calls,
          scan, db0, dbImage, plcUp, excel, xml_file, remote, SFTP_PASS,
          inflight, attempts, carry, interrupted, acked>>

svcLocals == <<box_data, excel_success, xml_content, xml_saved,
               upload_success, write_success, data, calls, scan>>
sinks == <<excel, xml_file, remote>>
hist == <<attempts, carry, interrupted, acked>>

---------------------------------------------------------------------------
(* Bounds of the model *)

MaxBoxes == 3       \* runs dispatched before the model stops dispatching

(* Configuration (lines 25-63) *)

DB_SIZE == 1000
SRC_PRODUCT_COUNT == 20   \* PRODUCT_COUNT in the source
BOX_LID_START == 94
BOX_LID_LENGTH == 15
PRODUCT_COUNT == 3  \* 20 in the source; slots scanned by the model
BYTES_PER_PRODUCT == 60
PRODUCTS_BASE == 10
OFFSET_SPOOL == 0
OFFSET_MATERIAL == 16
OFFSET_MANUF_DATE == 24
OFFSET_EXP_DATE == 32
OFFSET_BATCH == 40
OFFSET_SHOP_ORDER == 50
LEN_SPOOL == 15
LEN_MATERIAL == 7
LEN_DATE == 8
LEN_BATCH == 10
LEN_SHOP_ORDER == 10
RDA_VALUE == <<49>>     \* "1"
START_VALUE == <<82>>   \* "R"
READY_BIT == 0
ACK_BIT == 1

---------------------------------------------------------------------------
(* Sequence helpers *)

RECURSIVE SumSeq(_)
SumSeq(s) == IF s = <<>> THEN 0 ELSE Head(s) + SumSeq(Tail(s))

IsPrefix(s, t) == /\ Len(s) <= Len(t)
                  /\ SubSeq(t, 1, Len(s)) = s


---------------------------------------------------------------------------
(* The PLC data block.  Byte 0 carries the handshake bits; the other bytes  *)
(* hold the image the controller staged last.  An image is a set of fields  *)
(* placed at absolute byte addresses; every other byte is 0.                *)

Blank == {}

\* lid "BOX1"; slot 0 fully populated (manuf date 01012024, exp date
\* "2024-1"); slot 1 blank; slot 2 with a spool id only
BoxA == { [at |-> 94,  s |-> <<66, 79, 88, 49>>],
          [at |-> 10,  s |-> <<83, 80, 49>>],
          [at |-> 26,  s |-> <<77>>],
          [at |-> 34,  s |-> <<48, 49, 48, 49, 50, 48, 50, 52>>],
          [at |-> 42,  s |-> <<50, 48, 50, 52, 45, 49>>],
          [at |-> 50,  s |-> <<66>>],
          [at |-> 60,  s |-> <<83>>],
          [at |-> 130, s |-> <<32, 83, 80, 51, 32>>] }

\* lid "BOX2"; only slot 1 populated, spool id "SP2" followed by a byte > 127
BoxB == { [at |-> 94,  s |-> <<66, 79, 88, 50>>],
          [at |-> 70,  s |-> <<83, 80, 50, 200>>] }

Images == <<Blank, BoxA, BoxB>>

\* Generated images, for exercising the decoder on every combination of a
\* few field contents.  Spool ids a slot may hold: nothing, "S<slot>", or
\* white space only.
SpoolChoices(slot) == << <<>>, <<83, 48 + slot>>, <<32, 9>> >>

\* Manufacture dates slot 0 may hold: "01012024", "0101202", "0101202A",
\* "01-01-24", nothing, " 1012024"
ManufChoices == << <<48, 49, 48, 49, 50, 48, 50, 52>>,
                   <<48, 49, 48, 49, 50, 48, 50>>,
                   <<48, 49, 48, 49, 50, 48, 50, 65>>,
                   <<48, 49, 45, 48, 49, 45, 50, 52>>,
                   <<>>,
                   <<32, 49, 48, 49, 50, 48, 50, 52>> >>

\* Expiry dates slot 0 may hold: "31122025", "2025"
ExpChoices == << <<51, 49, 49, 50, 50, 48, 50, 53>>, <<50, 48, 50, 53>> >>

GenLid == <<66, 79, 88, 55>>   \* "BOX7"

\* images 0 .. NumScanImages-1: a lid or none, and one spool choice per slot
NumScanImages == 2 * 3 ^ PRODUCT_COUNT

\* then one image per pair of dates in slot 0, whose material is "M"
\* followed by a byte > 127
NumDateImages == Len(ManufChoices) * Len(ExpChoices)

NumGenImages == NumScanImages + NumDateImages

GenImage(k) ==
    LET base(slot) == PRODUCTS_BASE + slot * BYTES_PER_PRODUCT
        j == k - NumScanImages
    IN  IF k < NumScanImages
        THEN { [at |-> base(slot) + OFFSET_SPOOL,
                s  |-> SpoolChoices(slot)[(((k \div 2) \div (3 ^ slot)) % 3) + 1]]
               : slot \in 0..(PRODUCT_COUNT - 1) }
             \cup (IF k % 2 = 1
                   THEN {[at |-> BOX_LID_START, s |-> GenLid]} ELSE {})
        ELSE { [at |-> base(0) + OFFSET_SPOOL, s |-> SpoolChoices(0)[2]],
               [at |-> base(0) + OFFSET_MATERIAL, s |-> <<77, 200>>],
               [at |-> base(0) + OFFSET_MANUF_DATE,
                s  |-> ManufChoices[(j % Len(ManufChoices)) + 1]],
               [at |-> base(0) + OFFSET_EXP_DATE,
                s  |-> ExpChoices[(j \div Len(ManufChoices)) + 1]] }

\* image numbers 1..Len(Images) are the staged boxes, the following
\* NumGenImages numbers the generated ones
ImageFields(img) ==
    IF img <= Len(Images) THEN Images[img] ELSE GenImage(img - Len(Images) - 1)

GenImages == (Len(Images) + 1) .. (Len(Images) + NumGenImages)

ImageByte(img, a) ==
    LET fields == ImageFields(img)
    IN  IF \E f \in fields : a \in f.at .. (f.at + Len(f.s) - 1)
        THEN LET f == CHOOSE g \in fields : a \in g.at .. (g.at + Len(g.s) - 1)
             IN  f.s[a - f.at + 1]
        ELSE 0

\* client.db_read(DB_NUMBER, start, length) on a reachable PLC
db_read(b0, img, start, length) ==
    [i \in 1..length |->
        IF start + i - 1 = 0 THEN b0 ELSE ImageByte(img, start + i - 1)]

\* snap7.util.get_bool / set_bool on a one-byte buffer
get_bool(byte, bit) == (byte \div (2 ^ bit)) % 2 = 1

set_bool(byte, bit, value) ==
    IF get_bool(byte, bit) = value THEN byte
    ELSE IF value THEN byte + 2 ^ bit ELSE byte - 2 ^ bit

---------------------------------------------------------------------------
(* read_plc_string (lines 128-137) *)

IsWhitespace(c) == c \in (9..13) \cup (28..32)

AsciiIgnore(bytes) == SelectSeq(bytes, LAMBDA b : b < 128)

RECURSIVE RStripNul(_)
RStripNul(s) ==
    IF s # <<>> /\ s[Len(s)] = 0 THEN RStripNul(SubSeq(s, 1, Len(s) - 1)) ELSE s

RECURSIVE RStrip(_)
RStrip(s) ==
    IF s # <<>> /\ IsWhitespace(s[Len(s)])
    THEN RStrip(SubSeq(s, 1, Len(s) - 1)) ELSE s

RECURSIVE LStrip(_)
LStrip(s) == IF s # <<>> /\ IsWhitespace(s[1]) THEN LStrip(Tail(s)) ELSE s

Strip(s) == LStrip(RStrip(s))

\* up = FALSE: db_read raises, the handler returns ""
read_plc_string(up, b0, img, start_byte, length) ==
    IF up THEN Strip(RStripNul(AsciiIgnore(db_read(b0, img, start_byte, length))))
    ELSE <<>>

\* read_plc_bit (lines 140-147): False when db_read raises
read_plc_bit_lastknown(up, b0, bit_index) == get_bool(b0, bit_index)

read_plc_bit(up, b0, bit_index) == up /\ get_bool(b0, bit_index)

---------------------------------------------------------------------------
(* read_box_data (lines 166-228) *)

IsSpace(s) == s # <<>> /\ \A i \in 1..Len(s) : IsWhitespace(s[i])

IsDigit(s) == s # <<>> /\ \A i \in 1..Len(s) : s[i] \in 48..57

FormatDateAnyEight(d) ==
    IF Len(d) = 8
    THEN SubSeq(d, 1, 2) \o <<47>> \o SubSeq(d, 3, 4) \o <<47>> \o SubSeq(d, 5, 8)
    ELSE d

FormatDate(d) ==
    IF Len(d) = 8 /\ IsDigit(d)
    THEN SubSeq(d, 1, 2) \o <<47>> \o SubSeq(d, 3, 4) \o <<47>> \o SubSeq(d, 5, 8)
    ELSE d

SlotStart(product_num) == PRODUCTS_BASE + product_num * BYTES_PER_PRODUCT

SlotSkipped(spool_id) == spool_id = <<>> \/ IsSpace(spool_id)

ReadProduct(up, b0, img, product_num) ==
    LET start_byte == SlotStart(product_num)
        rd(off, n) == read_plc_string(up, b0, img, start_byte + off, n)
    IN  [spool_id   |-> rd(OFFSET_SPOOL, LEN_SPOOL),
         material   |-> rd(OFFSET_MATERIAL, LEN_MATERIAL),
         manuf_date |-> FormatDate(rd(OFFSET_MANUF_DATE, LEN_DATE)),
         exp_date   |-> FormatDate(rd(OFFSET_EXP_DATE, LEN_DATE)),
         batch      |-> rd(OFFSET_BATCH, LEN_BATCH),
         shop_order |-> rd(OFFSET_SHOP_ORDER, LEN_SHOP_ORDER)]

RECURSIVE ScanSlots(_, _, _, _)
ScanSlots(up, b0, img, product_num) ==
    IF product_num >= PRODUCT_COUNT THEN <<>>
    ELSE LET p == ReadProduct(up, b0, img, product_num)
             rest == ScanSlots(up, b0, img, product_num + 1)
         IN  IF SlotSkipped(p.spool_id) THEN rest ELSE <<p>> \o rest

read_box_data(up, b0, img) ==
    [box_lid  |-> read_plc_string(up, b0, img, BOX_LID_START, BOX_LID_LENGTH),
     products |-> ScanSlots(up, b0, img, 0)]

NoBox == [box_lid |-> <<>>, products |-> <<>>]

NoProduct == [spool_id |-> <<>>, material |-> <<>>, manuf_date |-> <<>>,
              exp_date |-> <<>>, batch |-> <<>>, shop_order |-> <<>>]

\* read_box_data not running: product_num and the field variables of lines
\* 193-207; slots, failed and held record, for the box being built, the
\* slot of each appended product, whether a read has raised, and the images
\* the block has held since the first read
NoScan == [product_num |-> 0, field |-> 0, cur |-> NoProduct,
           slots |-> <<>>, failed |-> FALSE, held |-> {}]

---------------------------------------------------------------------------
(* save_to_excel (lines 235-279).  The workbook is the row list of its      *)
(* 'Production' sheet.  The inner handler of lines 267-269 is a bare        *)
(* except: it runs when the sheet is missing and also when anything else    *)
(* is raised by lines 263-266 (KeyboardInterrupt included), and writes the  *)
(* new rows from the top of the sheet (if_sheet_exists='overlay').          *)

\* rows built at lines 239-253; timestamp is datetime.now() of the call
RowsOf(bd, timestamp) ==
    [i \in 1..Len(bd.products) |->
        [Timestamp          |-> timestamp,
         Box_Lid            |-> bd.box_lid,
         Spool_ID           |-> bd.products[i].spool_id,
         Material           |-> bd.products[i].material,
         Manufacturing_Date |-> bd.products[i].manuf_date,
         Expiration_Date    |-> bd.products[i].exp_date,
         Batch              |-> bd.products[i].batch,
         Shop_Order         |-> bd.products[i].shop_order]]

\* pd.concat([existing_df, df]) written back over the sheet (lines 263-266)
AppendRows(existing, df) == existing \o df

\* df.to_excel on a writer opened with if_sheet_exists='overlay' (line 269):
\* the cells of df replace those of the first rows, the other rows stay
Overlay(existing, df) == df \o SubSeq(existing, Len(df) + 1, Len(existing))

\* raised: whether lines 263-266 raise although the sheet is there
save_to_excel(book, bd, timestamp, raised) ==
    LET df == RowsOf(bd, timestamp)
    IN  IF book.exists
        THEN IF book.sheet /\ ~raised
             THEN [book EXCEPT !.rows = AppendRows(book.rows, df)]
             ELSE [exists |-> TRUE, sheet |-> TRUE,
                   rows |-> Overlay(book.rows, df)]
        ELSE [exists |-> TRUE, sheet |-> TRUE, rows |-> df]

---------------------------------------------------------------------------
(* create_sap_xml (lines 286-329).  The document is the list of the child   *)
(* nodes of SCANS; <<>> stands for the None the function returns.           *)

RECURSIVE IntToStr(_)
IntToStr(n) ==
    IF n < 10 THEN <<48 + n>> ELSE IntToStr(n \div 10) \o <<48 + (n % 10)>>

Comma == <<44>>

SeelalDataDatesSwapped(product) ==
    product.spool_id \o Comma \o product.material \o Comma \o
    product.exp_date \o Comma \o product.manuf_date \o Comma \o
    product.batch \o Comma \o product.shop_order

SeelalData(product) ==
    product.spool_id \o Comma \o product.material \o Comma \o
    product.manuf_date \o Comma \o product.exp_date \o Comma \o
    product.batch \o Comma \o product.shop_order

Leaf(tag, text) == [tag |-> tag, text |-> text, children |-> <<>>]

ScanNode(product) ==
    [tag |-> "SCAN", text |-> <<>>,
     children |-> <<Leaf("RDA", RDA_VALUE), Leaf("SEELAL", SeelalData(product))>>]

create_sap_xml(products) ==
    IF products = <<>> THEN <<>>
    ELSE [i \in 1..Len(products) |-> ScanNode(products[i])]
         \o <<Leaf("START", START_VALUE),
              Leaf("TRAYTYPE", IntToStr(Len(products)))>>

(* Size in bytes of the pretty-printed document (lines 321-322, 339-342) *)

TagLen(tag) ==
    CASE tag = "SCAN" -> 4 [] tag = "RDA" -> 3 [] tag = "SEELAL" -> 6
      [] tag = "START" -> 5 [] tag = "TRAYTYPE" -> 8

EscLen(c) == CASE c = 38 -> 5 [] c = 34 -> 6 [] c \in {60, 62} -> 4 [] OTHER -> 1

TextLen(text) == SumSeq([i \in 1..Len(text) |-> EscLen(text[i])])

LeafLen(depth, n) ==
    IF n.text = <<>> THEN 4 * depth + TagLen(n.tag) + 4
    ELSE 4 * depth + 2 * TagLen(n.tag) + 6 + TextLen(n.text)

NodeLen(n) ==
    IF n.children = <<>> THEN LeafLen(1, n)
    ELSE (4 + TagLen(n.tag) + 3)
         + SumSeq([i \in 1..Len(n.children) |-> LeafLen(2, n.children[i])])
         + (4 + TagLen(n.tag) + 4)

XmlSize(doc) ==
    IF doc = <<>> THEN 0
    ELSE 23 + 8 + SumSeq([i \in 1..Len(doc) |-> NodeLen(doc[i])]) + 9

NoFile == [exists |-> FALSE, content |-> <<>>, size |-> 0]

\* save_xml_file (lines 332-360): the file as left by open(..., 'w') + write
WrittenFile(doc) == [exists |-> TRUE, content |-> doc, size |-> XmlSize(doc)]

---------------------------------------------------------------------------
(* upload_to_sftp (lines 367-418) *)

\* what sftp.put leaves in the folder: the whole file, or a short transfer
PutResults(local) ==
    {local, [local EXCEPT !.size = local.size \div 2]}

\* line 399
SizesMatchAlways(remote_size, local_size) == TRUE

SizesMatch(remote_size, local_size) == remote_size = local_size

---------------------------------------------------------------------------
(* Initial state: main_loop is about to connect (lines 517-522).  The log   *)
(* file is absent or a workbook without the 'Production' sheet; the         *)
(* password is configured or left empty as in line 58.                      *)

LocalsInit ==
    /\ box_data = NoBox
    /\ excel_success = "none"
    /\ xml_content = <<>>
    /\ xml_saved = "none"
    /\ upload_success = "none"
    /\ write_success = "none"
    /\ data = 0
    /\ calls = <<>>
    /\ scan = NoScan

Init ==
    /\ pc = "connect"
    /\ boxes_processed = 0
    /\ data_ready = FALSE
    /\ success = "none"
    /\ LocalsInit
    /\ db0 = 0
    /\ dbImage = 1
    /\ plcUp \in BOOLEAN
    /\ excel \in {[exists |-> FALSE, sheet |-> FALSE, rows |-> <<>>],
                  [exists |-> TRUE, sheet |-> FALSE, rows |-> <<>>]}
    /\ xml_file = NoFile
    /\ remote = NoFile
    /\ SFTP_PASS \in BOOLEAN
    /\ inflight = 0
    /\ attempts = 0
    /\ carry = NoBox
    /\ interrupted = FALSE
    /\ acked = "no"

\* the frame of process_box is gone: its locals no longer exist
LocalsReset ==
    /\ box_data' = NoBox
    /\ excel_success' = "none"
    /\ xml_content' = <<>>
    /\ xml_saved' = "none"
    /\ upload_success' = "none"
    /\ write_success' = "none"
    /\ data' = 0
    /\ calls' = <<>>
    /\ scan' = NoScan

\* process_box returns result to main_loop (line 537); every failure is a
\* return False (lines 443-493), none is an exception that leaves the loop
ReturnBoxRaising(result) ==
    /\ success' = result
    /\ pc' = IF result = "fail" THEN "stopped" ELSE "ret"

ReturnBox(result) ==
    /\ success' = result
    /\ pc' = "ret"

---------------------------------------------------------------------------
(* main_loop (lines 500-567) *)

\* line 522-524
ConnectToPlc ==
    /\ pc = "connect"
    /\ pc' = IF plcUp THEN "poll" ELSE "stopped"
    /\ UNCHANGED <<boxes_processed, data_ready, success, svcLocals, db0,
                   dbImage, plcUp, sinks, SFTP_PASS, inflight, hist>>

\* the loop reads ready only at the top of an iteration (line 530)
AtPollOrPulse == pc \in {"poll", "pulse"}

AtPoll == pc = "poll"

\* line 532: the branch that dispatches; failed is the number of failed runs
DispatchCapped(ready, failed) == ready /\ failed < 1

Dispatch(ready, failed) == ready

\* line 534: boxes_processed += 1
NextCountTwice(n) == n + 2

NextCount(n) == n + 1

\* lines 530-537: read ready; if set, count the box and enter process_box
Poll ==
    /\ AtPoll
    /\ data_ready' = read_plc_bit(plcUp, db0, READY_BIT)
    /\ IF Dispatch(data_ready', attempts)
       THEN /\ boxes_processed < MaxBoxes
            /\ boxes_processed' = NextCount(boxes_processed)
            /\ inflight' = inflight + 1
            /\ success' = "none"
            /\ acked' = "no"
            /\ pc' = "decode"
       ELSE /\ pc' = "sleep"
            /\ UNCHANGED <<boxes_processed, inflight, success, acked>>
    /\ UNCHANGED <<svcLocals, db0, dbImage, plcUp, sinks, SFTP_PASS,
                   attempts, carry, interrupted>>

\* lines 539-545: back in main_loop after process_box returned
Return ==
    /\ pc = "ret"
    /\ pc' = "sleep"
    /\ inflight' = inflight - 1
    /\ attempts' = IF success = "fail" THEN attempts + 1 ELSE 0
    /\ carry' = IF success = "ok" THEN NoBox
                ELSE IF excel_success = "ok" THEN box_data ELSE carry
    /\ LocalsReset
    /\ UNCHANGED <<interrupted, acked>>
    /\ UNCHANGED <<boxes_processed, data_ready, success, db0, dbImage, plcUp,
                   sinks, SFTP_PASS>>

\* line 548: time.sleep(POLL_INTERVAL), then the next iteration
Sleep ==
    /\ pc = "sleep"
    /\ pc' = "poll"
    /\ UNCHANGED <<boxes_processed, data_ready, success, svcLocals, db0,
                   dbImage, plcUp, sinks, SFTP_PASS, inflight, hist>>

\* Ctrl+C: KeyboardInterrupt is raised wherever the main thread is; no
\* handler inside the loop or process_box catches it (lines 491, 550 catch
\* Exception only), so lines 554-567 run and main_loop ends.
Interrupt ==
    /\ pc # "stopped"
    /\ pc' = "stopped"
    /\ interrupted' = TRUE
    /\ LocalsReset
    /\ UNCHANGED <<boxes_processed, data_ready, success, db0, dbImage, plcUp,
                   sinks, SFTP_PASS, inflight, attempts, carry, acked>>

---------------------------------------------------------------------------
(* process_box (lines 425-493) *)

\* line 441
EmptyBoxNever(products) == FALSE

EmptyBox(products) == products = <<>>

\* lines 440-443
Decode ==
    /\ pc = "decode"
    /\ calls' = Append(calls, "read_box_data")
    /\ box_data' = read_box_data(plcUp, db0, dbImage)
    /\ IF EmptyBox(box_data'.products)
       THEN ReturnBox("fail")
       ELSE pc' = "persist" /\ UNCHANGED success
    /\ UNCHANGED scan
    /\ UNCHANGED <<boxes_processed, data_ready, excel_success, xml_content,
                   xml_saved, upload_success, write_success, data, db0,
                   dbImage, plcUp, sinks, SFTP_PASS, inflight, hist>>

\* line 447
ExcelFailedNever(result) == FALSE

ExcelFailed(result) == result # "ok"

\* lines 446-449; the call fails before it writes (file locked, disk full)
\* or returns True, through line 265 or through the handler of line 269.
\* datetime.now() (line 240) is the ordinal of the run: two runs are more
\* than a second apart (lines 545, 548), so their timestamps differ.
Persist ==
    /\ pc = "persist"
    /\ calls' = Append(calls, "save_to_excel")
    /\ \E ok \in BOOLEAN, raised \in BOOLEAN :
          /\ excel_success' = IF ok THEN "ok" ELSE "fail"
          /\ excel' = IF ok THEN save_to_excel(excel, box_data,
                                               boxes_processed, raised)
                      ELSE excel
    /\ IF ExcelFailed(excel_success')
       THEN ReturnBox("fail")
       ELSE pc' = "export" /\ UNCHANGED success
    /\ UNCHANGED scan
    /\ UNCHANGED <<boxes_processed, data_ready, box_data, xml_content,
                   xml_saved, upload_success, write_success, data, db0,
                   dbImage, plcUp, xml_file, remote, SFTP_PASS, inflight, hist>>

\* lines 452-455; the handler of line 327 turns any exception into None
Export ==
    /\ pc = "export"
    /\ calls' = Append(calls, "create_sap_xml")
    /\ \E ok \in BOOLEAN :
          xml_content' = IF ok THEN create_sap_xml(box_data.products) ELSE <<>>
    /\ IF xml_content' = <<>>
       THEN ReturnBox("fail")
       ELSE pc' = "save" /\ UNCHANGED success
    /\ UNCHANGED scan
    /\ UNCHANGED <<boxes_processed, data_ready, box_data, excel_success,
                   xml_saved, upload_success, write_success, data, db0,
                   dbImage, plcUp, sinks, SFTP_PASS, inflight, hist>>

\* lines 458-459; a failure before open() leaves the file alone, a failure
\* after it leaves the truncated file
Save ==
    /\ pc = "save"
    /\ calls' = Append(calls, "save_xml_file")
    /\ \/ /\ xml_saved' = "ok"
          /\ xml_file' = WrittenFile(xml_content)
          /\ pc' = "upload"
          /\ UNCHANGED success
       \/ /\ xml_saved' = "fail"
          /\ xml_file' \in {xml_file, WrittenFile(<<>>)}
          /\ ReturnBox("fail")
    /\ UNCHANGED scan
    /\ UNCHANGED <<boxes_processed, data_ready, box_data, excel_success,
                   xml_content, upload_success, write_success, data, db0,
                   dbImage, plcUp, excel, remote, SFTP_PASS, inflight, hist>>

\* line 465
UploadOkAlways(result) == TRUE

UploadOk(result) == result = "ok"

\* upload_to_sftp (lines 367-418) as called at line 463, and lines 465-489
Upload ==
    /\ pc = "upload"
    /\ calls' = Append(calls, "upload_to_sftp")
    /\ \/ /\ ~SFTP_PASS \/ ~xml_file.exists
          /\ upload_success' = "fail"
          /\ UNCHANGED remote
       \/ /\ SFTP_PASS /\ xml_file.exists
          /\ \/ /\ upload_success' = "fail"     \* connect / put raised
                /\ UNCHANGED remote
             \/ \E r \in PutResults(xml_file) :
                   /\ remote' = r
                   /\ upload_success' =
                         IF SizesMatch(r.size, xml_file.size) THEN "ok" ELSE "fail"
    /\ IF UploadOk(upload_success')
       THEN pc' = "ack_rd" /\ UNCHANGED success
       ELSE ReturnBox("fail")
    /\ UNCHANGED scan
    /\ UNCHANGED <<boxes_processed, data_ready, box_data, excel_success,
                   xml_content, xml_saved, write_success, data, db0, dbImage,
                   plcUp, excel, xml_file, SFTP_PASS, inflight, hist>>

\* lines 470-486: what process_box returns once write_plc_bit(.., True) has
\* returned write_success
ResultAfterAckIgnored(result) == "ok"

ResultAfterAck(result) == IF result = "ok" THEN "ok" ELSE "fail"

\* write_plc_bit(client, 0, 1, True), line 153: db_read of byte 0
AckRead ==
    /\ pc = "ack_rd"
    /\ calls' = Append(calls, "write_plc_bit")
    /\ IF plcUp
       THEN /\ data' = db0
            /\ pc' = "ack_wr"
            /\ UNCHANGED <<write_success, success>>
       ELSE /\ write_success' = "fail"
            /\ ReturnBox(ResultAfterAck(write_success'))
            /\ UNCHANGED data
    /\ UNCHANGED scan
    /\ UNCHANGED <<boxes_processed, data_ready, box_data, excel_success,
                   xml_content, xml_saved, upload_success, db0, dbImage,
                   plcUp, sinks, SFTP_PASS, inflight, hist>>

\* write_plc_bit(client, 0, 1, True), lines 154-155, and lines 470-486
AckWrite ==
    /\ pc = "ack_wr"
    /\ IF plcUp
       THEN /\ db0' = set_bool(data, ACK_BIT, TRUE)
            /\ write_success' = "ok"
            /\ acked' = IF get_bool(db0', READY_BIT) THEN "yes" ELSE "cleared"
            /\ pc' = "pulse"
            /\ UNCHANGED success
       ELSE /\ write_success' = "fail"
            /\ ReturnBox(ResultAfterAck(write_success'))
            /\ UNCHANGED <<db0, acked>>
    /\ UNCHANGED scan
    /\ UNCHANGED <<boxes_processed, data_ready, box_data, excel_success,
                   xml_content, xml_saved, upload_success, data, calls,
                   dbImage, plcUp, sinks, SFTP_PASS, inflight, attempts,
                   carry, interrupted>>

\* line 474: time.sleep(0.3)
Pulse ==
    /\ pc = "pulse"
    /\ pc' = "rst_rd"
    /\ UNCHANGED <<boxes_processed, data_ready, success, svcLocals, db0,
                   dbImage, plcUp, sinks, SFTP_PASS, inflight, hist>>

\* write_plc_bit(client, 0, 1, False), line 153; its result is not looked
\* at (line 475), so the run returns True whether or not the read works
ResetRead ==
    /\ pc = "rst_rd"
    /\ calls' = Append(calls, "write_plc_bit")
    /\ IF plcUp
       THEN /\ data' = db0
            /\ pc' = "rst_wr"
            /\ UNCHANGED success
       ELSE /\ ReturnBox(ResultAfterAck(write_success))
            /\ UNCHANGED data
    /\ UNCHANGED scan
    /\ UNCHANGED <<boxes_processed, data_ready, box_data, excel_success,
                   xml_content, xml_saved, upload_success, write_success, db0,
                   dbImage, plcUp, sinks, SFTP_PASS, inflight, hist>>

\* write_plc_bit(client, 0, 1, False), lines 154-155, then line 483
ResetWrite ==
    /\ pc = "rst_wr"
    /\ db0' = IF plcUp THEN set_bool(data, ACK_BIT, FALSE) ELSE db0
    /\ ReturnBox(ResultAfterAck(write_success))
    /\ UNCHANGED <<boxes_processed, data_ready, svcLocals, dbImage, plcUp,
                   sinks, SFTP_PASS, inflight, hist>>

---------------------------------------------------------------------------
(* The controller and the link, which the service does not control *)

\* the controller sets or clears DBX0.0 (read at line 530)
PlcSetReady ==
    /\ pc # "stopped"
    /\ db0' = set_bool(db0, READY_BIT, ~get_bool(db0, READY_BIT))
    /\ attempts' = 0
    /\ acked' = IF acked = "yes" /\ get_bool(db0, READY_BIT) THEN "cleared"
                ELSE IF acked = "cleared" /\ ~get_bool(db0, READY_BIT)
                     THEN "no"
                ELSE acked
    /\ UNCHANGED interrupted
    /\ UNCHANGED <<pc, boxes_processed, data_ready, success, svcLocals,
                   dbImage, plcUp, sinks, SFTP_PASS, inflight, carry>>

\* the controller stages another box in the data block (read at 187-207)
PlcStageBox ==
    /\ pc # "stopped"
    /\ \E i \in 1..Len(Images) : i # dbImage /\ dbImage' = i
    /\ attempts' = 0
    /\ UNCHANGED <<interrupted, acked>>
    /\ UNCHANGED <<pc, boxes_processed, data_ready, success, svcLocals, db0,
                   plcUp, sinks, SFTP_PASS, inflight, carry>>

\* the connection to the PLC drops or comes back: db_read and db_write
\* raise while it is down (handlers of lines 135, 145, 157)
LinkChange ==
    /\ pc # "stopped"
    /\ plcUp' = ~plcUp
    /\ UNCHANGED <<pc, boxes_processed, data_ready, success, svcLocals, db0,
                   dbImage, sinks, SFTP_PASS, inflight, hist>>

Next ==
    \/ ConnectToPlc \/ Poll \/ Return \/ Sleep
    \/ Decode \/ Persist \/ Export \/ Save \/ Upload
    \/ AckRead \/ AckWrite \/ Pulse \/ ResetRead \/ ResetWrite
    \/ Interrupt
    \/ PlcSetReady \/ PlcStageBox \/ LinkChange

Spec == Init /\ [][Next]_vars

---------------------------------------------------------------------------
(* read_box_data one raw read at a time (lines 186-228): the link may drop  *)
(* or come back between any two reads of the same box, so that any subset   *)
(* of the reads raises.  The data block holds one generated image.          *)

\* the fields read after the spool id, in the order of lines 203-207
FieldNames == <<"material", "manuf_date", "exp_date", "batch", "shop_order">>

FieldOffset(i) == <<OFFSET_MATERIAL, OFFSET_MANUF_DATE, OFFSET_EXP_DATE,
                    OFFSET_BATCH, OFFSET_SHOP_ORDER>>[i]

FieldLength(i) == <<LEN_MATERIAL, LEN_DATE, LEN_DATE, LEN_BATCH,
                    LEN_SHOP_ORDER>>[i]

\* lines 135-137: the handler of read_plc_string swallows the exception, the
\* caller goes on with its next statement
AfterReadRaising(up, next_pc) == IF up THEN next_pc ELSE "dec_abort"

AfterRead(up, next_pc) == next_pc

\* lines 199-200: continue
AfterBlankSlotBreak(product_num) == PRODUCT_COUNT

AfterBlankSlot(product_num) == product_num + 1

\* line 193: the for loop ends after slot PRODUCT_COUNT - 1
SlotPc(product_num) ==
    IF product_num >= PRODUCT_COUNT THEN "dec_done" ELSE "rd_spool"

DecodeFrame ==
    UNCHANGED <<boxes_processed, data_ready, success, excel_success,
                xml_saved, upload_success, write_success, data, calls, db0,
                dbImage, plcUp, sinks, SFTP_PASS, inflight, hist>>

\* line 187
ReadLid ==
    /\ pc = "rd_lid"
    /\ box_data' = [box_lid  |-> read_plc_string(plcUp, db0, dbImage,
                                    BOX_LID_START, BOX_LID_LENGTH),
                    products |-> <<>>]
    /\ scan' = [NoScan EXCEPT !.failed = ~plcUp, !.held = {dbImage}]
    /\ pc' = AfterRead(plcUp, SlotPc(0))
    /\ UNCHANGED xml_content
    /\ DecodeFrame

\* lines 193-200
ReadSpool ==
    /\ pc = "rd_spool"
    /\ LET start_byte == SlotStart(scan.product_num)
           spool_id == read_plc_string(plcUp, db0, dbImage,
                           start_byte + OFFSET_SPOOL, LEN_SPOOL)
           next_num == AfterBlankSlot(scan.product_num)
       IN  IF SlotSkipped(spool_id)
           THEN /\ scan' = [scan EXCEPT !.product_num = next_num,
                                        !.failed = @ \/ ~plcUp]
                /\ pc' = AfterRead(plcUp, SlotPc(next_num))
           ELSE /\ scan' = [scan EXCEPT
                               !.cur = [NoProduct EXCEPT !.spool_id = spool_id],
                               !.field = 1]
                /\ pc' = AfterRead(plcUp, "rd_field")
    /\ UNCHANGED <<box_data, xml_content>>
    /\ DecodeFrame

\* lines 203-222: one of the five remaining reads; after the last one the
\* dates are formatted and the product is appended
ReadField ==
    /\ pc = "rd_field"
    /\ LET i == scan.field
           start_byte == SlotStart(scan.product_num)
           value == read_plc_string(plcUp, db0, dbImage,
                        start_byte + FieldOffset(i), FieldLength(i))
           cur == [scan.cur EXCEPT ![FieldNames[i]] = value]
           failed == scan.failed \/ ~plcUp
           product == [cur EXCEPT !.manuf_date = FormatDate(@),
                                  !.exp_date = FormatDate(@)]
       IN  IF i < Len(FieldNames)
           THEN /\ scan' = [scan EXCEPT !.cur = cur, !.field = i + 1,
                                        !.failed = failed]
                /\ pc' = AfterRead(plcUp, "rd_field")
                /\ UNCHANGED box_data
           ELSE /\ box_data' = [box_data EXCEPT
                                   !.products = Append(@, product)]
                /\ scan' = [scan EXCEPT
                               !.cur = NoProduct, !.field = 0,
                               !.product_num = @ + 1,
                               !.slots = Append(@, scan.product_num),
                               !.failed = failed]
                /\ pc' = AfterRead(plcUp, SlotPc(scan.product_num + 1))
    /\ UNCHANGED xml_content
    /\ DecodeFrame

\* lines 441 and 452: process_box exports the products of a non-empty box
ExportDoc ==
    /\ pc = "dec_done"
    /\ ~EmptyBox(box_data.products)
    /\ xml_content' = create_sap_xml(box_data.products)
    /\ pc' = "exported"
    /\ UNCHANGED <<box_data, scan>>
    /\ DecodeFrame

InitDecodeFrom(images) ==
    /\ pc = "rd_lid"
    /\ boxes_processed = 1
    /\ data_ready = TRUE
    /\ success = "none"
    /\ LocalsInit
    /\ db0 = set_bool(0, READY_BIT, TRUE)
    /\ dbImage \in images
    /\ plcUp \in BOOLEAN
    /\ excel = [exists |-> FALSE, sheet |-> FALSE, rows |-> <<>>]
    /\ xml_file = NoFile
    /\ remote = NoFile
    /\ SFTP_PASS = FALSE
    /\ inflight = 1
    /\ attempts = 0
    /\ carry = NoBox
    /\ interrupted = FALSE
    /\ acked = "no"

InitDecode == InitDecodeFrom(GenImages)

NextDecode == ReadLid \/ ReadSpool \/ ReadField \/ ExportDoc \/ LinkChange

SpecDecode == InitDecode /\ [][NextDecode]_vars

---------------------------------------------------------------------------
(* read_box_data while the controller goes on writing the block: nothing   *)
(* in lines 186-228 keeps it from staging another box between two reads.   *)

PlcRestage ==
    /\ pc \in {"rd_spool", "rd_field"}
    /\ \E i \in 1..Len(Images) :
          /\ i # dbImage
          /\ dbImage' = i
          /\ scan' = [scan EXCEPT !.held = @ \cup {i}]
    /\ UNCHANGED <<pc, boxes_processed, data_ready, success, box_data,
                   excel_success, xml_content, xml_saved, upload_success,
                   write_success, data, calls, db0, plcUp, sinks, SFTP_PASS,
                   inflight, hist>>

InitTorn == InitDecodeFrom(1..Len(Images))

NextTorn ==
    ReadLid \/ ReadSpool \/ ReadField \/ ExportDoc \/ LinkChange \/ PlcRestage

SpecTorn == InitTorn /\ [][NextTorn]_vars

---------------------------------------------------------------------------
(* Vocabulary of the properties *)

ready == get_bool(db0, READY_BIT)
ack == get_bool(db0, ACK_BIT)

\* a step of the service (every one of them moves pc; the controller and
\* the link never do)
ServiceStep == pc' # pc

\* positions of main_loop outside process_box: polling and its sleeps
Idle == pc \in {"poll", "sleep"}

\* the results the run in progress has collected so far
AllStagesOk ==
    /\ box_data.products # <<>>
    /\ excel_success = "ok"
    /\ xml_content # <<>>
    /\ xml_saved = "ok"
    /\ upload_success = "ok"

Stages == <<"read_box_data", "save_to_excel", "create_sap_xml",
            "save_xml_file", "upload_to_sftp", "write_plc_bit",
            "write_plc_bit">>

StageOk(i) ==
    CASE i = 1 -> box_data.products # <<>>
      [] i = 2 -> excel_success = "ok"
      [] i = 3 -> xml_content # <<>>
      [] i = 4 -> xml_saved = "ok"
      [] i = 5 -> upload_success = "ok"
      [] i = 6 -> write_success = "ok"
      [] OTHER -> TRUE

\* rows of the log that carry this box lid and this product
RowsFor(rows, lid, product) ==
    {i \in 1..Len(rows) :
        rows[i] = RowsOf([box_lid |-> lid, products |-> <<product>>],
                         rows[i].Timestamp)[1]}

---------------------------------------------------------------------------
(* C1: the ack bit is set, and a write of ack = true is completed, only by  *)
(* the write of line 468 in a run whose decode gave at least one product    *)
(* and whose Persist, Export, local save and Transport all succeeded.       *)

C1_AckOnlyAfterAllStages ==
    [][ ((ack' /\ ~ack) \/ (write_success' = "ok" /\ write_success # "ok"))
        => (pc = "ack_wr" /\ AllStagesOk) ]_vars

C1_Witness == pc = "pulse" /\ ack /\ AllStagesOk /\ write_success = "ok"

(* C2: within a run the functions are called in the order decode, persist,  *)
(* export, (local save,) transport, acknowledge; every call before the      *)
(* last one succeeded; after a failed Persist nothing else was called and   *)
(* no write to the PLC was made.                                            *)

C2_StageOrder ==
    /\ IsPrefix(calls, Stages)
    /\ \A i \in 1..(Len(calls) - 1) : StageOk(i)
    /\ excel_success = "fail"
         => /\ calls = SubSeq(Stages, 1, 2)
            /\ xml_content = <<>> /\ upload_success = "none"
            /\ write_success = "none"
            /\ pc \in {"ret", "stopped"}

C2_Witness == pc = "ret" /\ excel_success = "fail" /\ success = "fail"

(* C3: once a run has decoded a box with no products, that run calls        *)
(* nothing else, fails, and no step taken while it lasts changes the log,   *)
(* the local document, the remote document or the ack bit.                  *)

C3_EmptyDecoded == calls # <<>> /\ box_data.products = <<>>

C3_EmptyBoxStopsRun ==
    /\ [](C3_EmptyDecoded
            => calls = <<"read_box_data">> /\ pc = "ret" /\ success = "fail")
    /\ [][ C3_EmptyDecoded => (UNCHANGED sinks /\ ack' = ack) ]_vars

C3_Witness == C3_EmptyDecoded /\ pc = "ret" /\ ready /\ plcUp

(* C4: at most one invocation of process_box is open at any time, none is   *)
(* open while the loop polls or sleeps, and ready is read and a box is      *)
(* dispatched only from the polling position with no run open.              *)

C4_OneRunInFlight ==
    /\ [](inflight <= 1 /\ (Idle => inflight = 0))
    /\ [][ (boxes_processed' # boxes_processed \/ data_ready' # data_ready)
           => (pc = "poll" /\ inflight = 0) ]_vars

C4_Witness == inflight = 1 /\ pc = "pulse" /\ ready

(* C5 (as claimed): no step of the service changes the ready bit.  The     *)
(* write of write_plc_bit stores the whole byte it read earlier, so it     *)
(* undoes a change the controller made to ready in between.                *)

C5_ServiceNeverChangesReady ==
    [][ ServiceStep => (get_bool(db0', READY_BIT) = ready) ]_vars

(* C6 (as claimed): whenever the loop is polling or sleeping, the ack bit   *)
(* is false (every pulse was completed before returning to the loop).       *)

C6_AckFalseWhenIdle == Idle => ~ack

(* C7: a run that failed made no write to the PLC (no ack pulse, ready not  *)
(* touched): the service changes byte 0 only in a run whose ack = true      *)
(* write succeeded, and such a run does not fail.  Every poll that reads    *)
(* ready = true dispatches a run, however many runs have failed before.     *)

C7_FailedRunRetried ==
    /\ []((pc = "ret" /\ success = "fail") => write_success # "ok")
    /\ [][ (ServiceStep /\ db0' # db0) => write_success' = "ok" ]_vars
    /\ [][ (pc = "poll" /\ ServiceStep /\ pc' # "stopped" /\ plcUp /\ ready)
           => (pc' = "decode" /\ boxes_processed' = boxes_processed + 1) ]_vars

C7_Witness == pc = "decode" /\ attempts = 2 /\ ready /\ ~ack

(* C8: Transport reports success only when the remote size equals the       *)
(* local size after the put; with the transferred document in place but of  *)
(* another size the run fails and calls write_plc_bit never.                *)

C8_SizeVerified ==
    /\ upload_success = "ok" => (remote.exists /\ remote.size = xml_file.size)
    /\ (upload_success # "none" /\ remote.size # xml_file.size)
         => /\ upload_success = "fail"
            /\ write_success = "none"
            /\ pc \in {"ret", "stopped"} /\ (pc = "ret" => success = "fail")

C8_Witness ==
    /\ pc = "ret" /\ success = "fail" /\ upload_success = "fail"
    /\ remote.exists /\ remote.content = xml_file.content
    /\ remote.size # xml_file.size

(* C9 (as claimed): the loop stops only between cycles, never with a run    *)
(* of process_box cut short.                                                *)

C9_StopsOnlyBetweenRuns == pc = "stopped" => inflight = 0

(* C10: rows once in the log stay (every step leaves the old rows as a      *)
(* prefix), and when a run succeeds on the box that an earlier run          *)
(* persisted before failing, the log holds each of its rows at least twice. *)

C10_NoRollbackDuplicates ==
    /\ [][ IsPrefix(excel.rows, excel.rows') ]_vars
    /\ []((pc = "ret" /\ success = "ok" /\ carry = box_data)
            => \A i \in 1..Len(box_data.products) :
                  Cardinality(RowsFor(excel.rows, box_data.box_lid,
                                      box_data.products[i])) >= 2)


---------------------------------------------------------------------------
(* Stage errors and the loop *)

\* a step in which a stage of the run in progress reports failure
StageFails ==
    /\ ServiceStep /\ ~interrupted'
    /\ \/ pc = "decode" /\ EmptyBox(box_data'.products)
       \/ pc = "persist" /\ excel_success' = "fail"
       \/ pc = "export" /\ xml_content' = <<>>
       \/ pc = "save" /\ xml_saved' = "fail"
       \/ pc = "upload" /\ upload_success' = "fail"

\* C11: a stage that fails makes process_box return False without having
\* touched the acknowledge bit, and the loop goes on: from the return it
\* sleeps and polls again; only Ctrl+C or a failed first connect end it.
C11_StageErrorKeepsLoop ==
    [][ /\ StageFails =>
            /\ pc' = "ret" /\ success' = "fail"
            /\ db0' = db0
            /\ \A i \in 1..Len(calls') : calls'[i] # "write_plc_bit"
        /\ (pc = "ret" /\ ServiceStep /\ ~interrupted') =>
            pc' = "sleep" /\ db0' = db0
        /\ (pc = "sleep" /\ ServiceStep /\ ~interrupted') =>
            pc' = "poll" /\ db0' = db0
        /\ (pc # "stopped" /\ pc' = "stopped") =>
            interrupted' \/ pc = "connect" ]_vars

\* polling again after a run that persisted its rows and then failed
C11_Witness ==
    /\ pc = "poll" /\ success = "fail" /\ carry # NoBox
    /\ boxes_processed >= 1 /\ ~interrupted


\* C18: when the PLC cannot be reached at the ready poll, the poll counts as
\* ready = false: nothing is dispatched or counted, no bit is written, the
\* loop sleeps and then polls again.
C18_UnreachablePollIsNotReady ==
    [][ /\ (pc = "poll" /\ ~plcUp /\ ServiceStep /\ ~interrupted') =>
            /\ data_ready' = FALSE
            /\ pc' = "sleep"
            /\ boxes_processed' = boxes_processed
            /\ inflight' = inflight
            /\ db0' = db0
        /\ (pc = "sleep" /\ ~data_ready /\ ServiceStep /\ ~interrupted') =>
            pc' = "poll" /\ boxes_processed' = boxes_processed ]_vars

\* sleeping after a poll that found nothing while the controller has ready
\* set and the link is down
C18_Witness ==
    /\ pc = "sleep" /\ ~plcUp /\ ready /\ ~data_ready
    /\ boxes_processed = 0 /\ inflight = 0


\* C20: between runs nothing of process_box is left (its locals are back at
\* their initial values); boxes_processed never decreases, and it changes
\* exactly in the poll steps that read ready = true, by one, whatever the
\* run does afterwards.
C20_OnlyCounterCarried ==
    /\ [](Idle => LocalsInit)
    /\ [][ /\ boxes_processed' >= boxes_processed
           /\ (boxes_processed' # boxes_processed) <=>
                 (pc = "poll" /\ ServiceStep /\ ~interrupted' /\ data_ready')
           /\ (boxes_processed' # boxes_processed) =>
                 /\ boxes_processed' = boxes_processed + 1
                 /\ plcUp /\ ready
                 /\ pc' = "decode" ]_vars

\* two boxes counted: one run uploaded its document, the latest one failed
C20_Witness ==
    /\ Idle /\ boxes_processed = 2
    /\ success = "fail" /\ remote # NoFile

\* C19: a successful save_to_excel keeps the rows that were there, in place,
\* and adds one row per product after them, all with the timestamp of the
\* run and the lid of the box; a failed one leaves the workbook as it was.
C19_PersistAppendOnly ==
    [][ pc = "persist" /\ ServiceStep /\ ~interrupted' =>
          IF excel_success' = "ok"
          THEN LET n == Len(excel.rows)
                   m == Len(box_data.products)
               IN  /\ Len(excel'.rows) = n + m
                   /\ SubSeq(excel'.rows, 1, n) = excel.rows
                   /\ \A k \in 1..m :
                         /\ excel'.rows[n + k].Timestamp = boxes_processed
                         /\ excel'.rows[n + k].Box_Lid = box_data.box_lid
                         /\ RowsFor(<<excel'.rows[n + k]>>, box_data.box_lid,
                                    box_data.products[k]) # {}
          ELSE excel' = excel ]_vars


---------------------------------------------------------------------------
(* The layout of the data block *)

\* the byte ranges read_box_data reads when it scans count slots: the lid
\* (line 187) and the six fields of every slot (lines 198-207)
LayoutFields(count) ==
    LET SlotFields ==
          << [name |-> "spool_id", off |-> OFFSET_SPOOL, len |-> LEN_SPOOL],
             [name |-> "material", off |-> OFFSET_MATERIAL,
              len |-> LEN_MATERIAL],
             [name |-> "manuf_date", off |-> OFFSET_MANUF_DATE,
              len |-> LEN_DATE],
             [name |-> "exp_date", off |-> OFFSET_EXP_DATE, len |-> LEN_DATE],
             [name |-> "batch", off |-> OFFSET_BATCH, len |-> LEN_BATCH],
             [name |-> "shop_order", off |-> OFFSET_SHOP_ORDER,
              len |-> LEN_SHOP_ORDER] >>
    IN  { [name |-> "box_lid", slot |-> -1, first |-> BOX_LID_START,
           last |-> BOX_LID_START + BOX_LID_LENGTH - 1] }
        \cup
        { [name  |-> SlotFields[i].name, slot |-> n,
           first |-> SlotStart(n) + SlotFields[i].off,
           last  |-> SlotStart(n) + SlotFields[i].off + SlotFields[i].len - 1]
          : n \in 0..(count - 1), i \in 1..6 }

\* C16: whenever read_box_data is about to read the block, the byte ranges
\* of the lid and of every field of every slot 0 .. PRODUCT_COUNT-1 it will
\* read are pairwise disjoint and lie inside the DB_SIZE bytes of the block.
C16_LayoutWellFormed ==
    pc = "decode" =>
        LET fields == LayoutFields(SRC_PRODUCT_COUNT)
        IN  /\ \A f, g \in fields :
                  f # g => (f.last < g.first \/ g.last < f.first)
            /\ \A f \in fields : 0 <= f.first /\ f.last < DB_SIZE


---------------------------------------------------------------------------
(* Decoding and export of one box *)

\* what the block holds in a field of slot n, when it can be read
MemField(n, off, len) ==
    read_plc_string(TRUE, db0, dbImage, SlotStart(n) + off, len)

NonBlankSlots ==
    {n \in 0..(PRODUCT_COUNT - 1) : MemField(n, OFFSET_SPOOL, LEN_SPOOL) # <<>>}

\* the k-th non-blank slot of the block, in increasing slot index
SlotOfProduct(k) ==
    CHOOSE n \in NonBlankSlots :
        Cardinality({m \in NonBlankSlots : m < n}) = k - 1

\* read_box_data has returned
DecodeDone == pc \in {"dec_done", "exported"}

\* C13: when no read failed, products holds exactly the non-blank slots of
\* the block, in increasing slot index, wherever the blank ones sit, and the
\* scan has gone through every slot.
C13_NonBlankSlotsInOrder ==
    (DecodeDone /\ ~scan.failed) =>
        /\ scan.product_num = PRODUCT_COUNT
        /\ Len(box_data.products) = Cardinality(NonBlankSlots)
        /\ \A k \in 1..Len(box_data.products) :
              /\ scan.slots[k] = SlotOfProduct(k)
              /\ box_data.products[k].spool_id =
                    MemField(SlotOfProduct(k), OFFSET_SPOOL, LEN_SPOOL)

\* slots 0 and 2 populated, slot 1 blank: products is [slot 0, slot 2]
C13_Witness ==
    /\ DecodeDone /\ ~scan.failed
    /\ 0 \in NonBlankSlots /\ 1 \notin NonBlankSlots /\ 2 \in NonBlankSlots
    /\ Len(box_data.products) >= 2
    /\ box_data.products[1].spool_id = SpoolChoices(0)[2]
    /\ box_data.products[2].spool_id = SpoolChoices(2)[2]

\* out is raw as the claim wants it: dd/mm/yyyy for eight digits, raw itself
\* for anything else
DateAsClaimed(raw, out) ==
    IF Len(raw) = 8 /\ \A i \in 1..8 : raw[i] \in 48..57
    THEN /\ Len(out) = 10
         /\ out[3] = 47 /\ out[6] = 47
         /\ <<out[1], out[2]>> = SubSeq(raw, 1, 2)
         /\ <<out[4], out[5]>> = SubSeq(raw, 3, 4)
         /\ SubSeq(out, 7, 10) = SubSeq(raw, 5, 8)
    ELSE out = raw

\* C14: manuf_date and exp_date of every product are the strings of the
\* block, rewritten as first2/mid2/last4 when they are exactly eight digits
\* and unchanged otherwise.
C14_DatesFormatted ==
    (DecodeDone /\ ~scan.failed) =>
        \A k \in 1..Len(box_data.products) :
            /\ DateAsClaimed(MemField(scan.slots[k], OFFSET_MANUF_DATE, LEN_DATE),
                             box_data.products[k].manuf_date)
            /\ DateAsClaimed(MemField(scan.slots[k], OFFSET_EXP_DATE, LEN_DATE),
                             box_data.products[k].exp_date)

\* manuf date 01012024 rewritten, exp date "2025" passed through
C14_Witness ==
    /\ DecodeDone /\ ~scan.failed
    /\ Len(box_data.products) = 1
    /\ MemField(0, OFFSET_MANUF_DATE, LEN_DATE) = ManufChoices[1]
    /\ box_data.products[1].manuf_date =
          <<48, 49, 47, 48, 49, 47, 50, 48, 50, 52>>
    /\ box_data.products[1].exp_date = ExpChoices[2]

RECURSIVE JoinWith(_, _)
JoinWith(strings, sep) ==
    IF strings = <<>> THEN <<>>
    ELSE IF Len(strings) = 1 THEN strings[1]
    ELSE strings[1] \o sep \o JoinWith(Tail(strings), sep)

RECURSIVE DecimalValue(_)
DecimalValue(str) ==
    IF str = <<>> THEN 0
    ELSE 10 * DecimalValue(SubSeq(str, 1, Len(str) - 1)) + (str[Len(str)] - 48)

\* C15: the document is one SCAN entry per product, in product order, each
\* with RDA = RDA_VALUE and SEELAL = the six fields joined by commas in the
\* order spool_id, material, manuf_date, exp_date, batch, shop_order; then
\* START = START_VALUE and TRAYTYPE = the number of products in decimal.
C15_DocumentShape ==
    pc = "exported" =>
        LET products == box_data.products
            n == Len(products)
            count == xml_content[n + 2].text
        IN  /\ Len(xml_content) = n + 2
            /\ \A i \in 1..n :
                  /\ xml_content[i].tag = "SCAN"
                  /\ Len(xml_content[i].children) = 2
                  /\ xml_content[i].children[1] = Leaf("RDA", RDA_VALUE)
                  /\ xml_content[i].children[2] =
                        Leaf("SEELAL",
                             JoinWith(<<products[i].spool_id,
                                        products[i].material,
                                        products[i].manuf_date,
                                        products[i].exp_date,
                                        products[i].batch,
                                        products[i].shop_order>>, Comma))
            /\ xml_content[n + 1] = Leaf("START", START_VALUE)
            /\ xml_content[n + 2].tag = "TRAYTYPE"
            /\ xml_content[n + 2].children = <<>>
            /\ count # <<>> /\ \A j \in 1..Len(count) : count[j] \in 48..57
            /\ (Len(count) > 1 => count[1] # 48)
            /\ DecimalValue(count) = n

\* a document of two entries or more, one of them with different dates
C15_Witness ==
    /\ pc = "exported" /\ Len(box_data.products) >= 2
    /\ Len(xml_content) = Len(box_data.products) + 2
    /\ \E i \in 1..Len(box_data.products) :
          box_data.products[i].manuf_date # box_data.products[i].exp_date


\* the fields of a product other than the one named
OtherFields(name) ==
    {"spool_id", "material", "manuf_date", "exp_date", "batch",
     "shop_order"} \ {name}

\* the product of slot n is what the block holds, apart from fields whose
\* read failed, which are empty
BestEffort(product, n) ==
    /\ product.spool_id = MemField(n, OFFSET_SPOOL, LEN_SPOOL)
    /\ product.material \in {<<>>, MemField(n, OFFSET_MATERIAL, LEN_MATERIAL)}
    /\ product.manuf_date \in
          {<<>>, FormatDate(MemField(n, OFFSET_MANUF_DATE, LEN_DATE))}
    /\ product.exp_date \in
          {<<>>, FormatDate(MemField(n, OFFSET_EXP_DATE, LEN_DATE))}
    /\ product.batch \in {<<>>, MemField(n, OFFSET_BATCH, LEN_BATCH)}
    /\ product.shop_order \in
          {<<>>, MemField(n, OFFSET_SHOP_ORDER, LEN_SHOP_ORDER)}

\* C17: read_box_data never aborts.  Whatever the block holds and whichever
\* reads fail, it is at one of its reads or has returned a record; a read
\* that fails gives the empty string, leaves the fields read before as they
\* were and moves on to the next read; the fields read afterwards are those
\* of the block; with no failed read the record is the whole decoded block.
C17_DecodeNeverFails ==
    /\ [](pc \in {"rd_lid", "rd_spool", "rd_field", "dec_done", "exported"})
    /\ [][ /\ (pc = "rd_lid" /\ ~plcUp /\ scan' # scan) =>
                 box_data'.box_lid = <<>> /\ pc' = "rd_spool"
           /\ (pc = "rd_spool" /\ ~plcUp /\ scan' # scan) =>
                 /\ scan'.product_num = scan.product_num + 1
                 /\ box_data' = box_data
                 /\ pc' \in {"rd_spool", "dec_done"}
           /\ (pc = "rd_field" /\ ~plcUp /\ scan' # scan) =>
                 LET name == FieldNames[scan.field]
                     after == IF scan.field < Len(FieldNames) THEN scan'.cur
                              ELSE box_data'.products[Len(box_data'.products)]
                 IN  /\ after[name] = <<>>
                     /\ \A other \in OtherFields(name) \ {"manuf_date", "exp_date"} :
                           after[other] = scan.cur[other]
                     /\ pc' \in {"rd_field", "rd_spool", "dec_done"} ]_vars
    /\ [](DecodeDone =>
             /\ box_data.box_lid \in
                   {<<>>, read_plc_string(TRUE, db0, dbImage, BOX_LID_START,
                                          BOX_LID_LENGTH)}
             /\ \A k \in 1..Len(box_data.products) :
                   BestEffort(box_data.products[k], scan.slots[k])
             /\ ~scan.failed => box_data = read_box_data(TRUE, db0, dbImage))

\* the read of material failed, the dates read after it are those of the
\* block
C17_Witness ==
    /\ DecodeDone /\ scan.failed
    /\ Len(box_data.products) = 1
    /\ MemField(0, OFFSET_MATERIAL, LEN_MATERIAL) = <<77>>
    /\ box_data.products[1].material = <<>>
    /\ box_data.products[1].manuf_date =
          <<48, 49, 47, 48, 49, 47, 50, 48, 50, 52>>
    /\ box_data.products[1].exp_date = ExpChoices[2]

\* the generated image that differs from img in the lid bytes only: the
\* same slots, no lid
SameBoxWithoutLid(img) ==
    LET k == img - Len(Images) - 1
    IN  IF k >= 0 /\ k < NumScanImages /\ k % 2 = 1 THEN img - 1 ELSE img

\* C12: nothing read from the lid bytes reaches the exported document: the
\* document of a box is the document of the same box without a lid.
C12_LidNotExported ==
    (pc = "exported" /\ ~scan.failed) =>
        xml_content =
          create_sap_xml(
            read_box_data(TRUE, db0, SameBoxWithoutLid(dbImage)).products)


---------------------------------------------------------------------------
(* The result of a run *)

\* number of write_plc_bit calls of the run in progress
BitWrites == Cardinality({i \in 1..Len(calls) : calls[i] = "write_plc_bit"})

\* C21: process_box returns True exactly when the decode gave a product and
\* save_to_excel, create_sap_xml, save_xml_file, upload_to_sftp and the
\* write of ack = true all succeeded.  When that write fails the run returns
\* False without having tried the write of ack = false, and the next poll
\* that reads ready = true dispatches again.
C21_SuccessIffAllAndAck ==
    /\ [](pc = "ret" =>
            /\ success \in {"ok", "fail"}
            /\ success = "ok" <=> (AllStagesOk /\ write_success = "ok")
            /\ write_success = "fail" => (success = "fail" /\ BitWrites = 1)
            /\ write_success = "ok" => BitWrites = 2)
    /\ [][ (pc = "poll" /\ success = "fail" /\ plcUp /\ ready
            /\ ServiceStep /\ ~interrupted') =>
              pc' = "decode" /\ box_data' = NoBox ]_vars

\* back in main_loop after a run whose upload worked and whose write of
\* ack = true failed
C21_Witness ==
    /\ pc = "ret" /\ success = "fail"
    /\ upload_success = "ok" /\ write_success = "fail"


---------------------------------------------------------------------------
(* The record of one run against the block *)

---------------------------------------------------------------------------
(* Acknowledged boxes *)

\* C23: after a run that set ack = true for a box, main_loop does not enter
\* process_box again before the controller has cleared ready and set it
\* again: no dispatch while the acknowledged box is still the one presented.
C23_AckedBoxNotReprocessed ==
    [][ (pc = "poll" /\ pc' = "decode") => acked = "no" ]_vars

============================================================================
